---- MODULE Spec2Model ----
(***************************************************************************)
(* Model of bridge/particle-bridge.py: the SSE frame decoder, the two-     *)
(* layer JSON envelope processing with process_event(), and the           *)
(* reconnect loop of main() with its exponential backoff.                  *)
(*                                                                         *)
(* Text on the wire is a sequence of characters.  The characters "\n",     *)
(* " ", "d", "a", "t", ":" and "x" are themselves.  Every other character  *)
(* is the name of a whole JSON document of the sample table WireDoc: a     *)
(* payload consisting of that one character is the serialised document.    *)
(* Numbers are kept in tenths (215 is 21.5) so that fractional values can  *)
(* be told from whole ones with integer arithmetic.                        *)
(***************************************************************************)
EXTENDS Integers, Sequences, FiniteSets, TLC

(***************************************************************************)
(* Bounds of the model (not program constants).                            *)
(***************************************************************************)
\* consecutive backoff waits without a successful connection in between
MaxWaits == 6
\* complete frames the transport delivers in one run
MaxFrames == 2
\* characters the frame buffer may hold before the transport pauses
MaxBuf == 10
\* atoms of the input of the stand-alone frame decoder
MaxAtoms == 6

(***************************************************************************)
(* Program constants.                                                      *)
(***************************************************************************)
\* retry_delay = 5 (initial value and value after a successful connection)
InitialDelay == 5
\* max_retry_delay = 60
max_retry_delay == 60
\* timestamp_ns = int(data['timestamp']) * 1_000_000_000
NS_PER_SECOND == 1000000000
\* line[6:], the length of the prefix 'data: '
PrefixLen == 6
\* chunk_size=1 of response.iter_content
chunk_size == 1

NL == "\n"
SP == " "
\* the literal 'data: ' of line.startswith('data: ')
DataPrefix == <<"d", "a", "t", "a", ":", SP>>
\* the delimiter '\n\n' of buffer.split('\n\n')
Delimiter == <<NL, NL>>
\* characters str.strip() removes
Whitespace == {NL, SP}

(***************************************************************************)
(* JSON values as json.loads() returns them, and the Python operations     *)
(* the program applies to them.                                            *)
(***************************************************************************)
NotJson == [t |-> "notjson"]
Null == [t |-> "null"]
\* a JSON number, v in tenths
Num(v) == [t |-> "num", v |-> v]
\* a Python str: sub are the words occurring in it as substrings, doc is the
\* value its text denotes as JSON (NotJson if it is no JSON text), and
\* isint/isfloat/lit tell whether int()/float() accept the text, and its value
Str(sub, doc, isint, isfloat, lit) ==
    [t |-> "str", sub |-> sub, doc |-> doc, isint |-> isint, isfloat |-> isfloat, lit |-> lit]
\* plain text such as "lab": no JSON, no number
Word(w) == Str({w}, NotJson, FALSE, FALSE, 0)
\* the serialised form of JSON value v (what the device puts into 'data')
Dump(v) == Str({}, v, FALSE, FALSE, 0)
\* a decimal literal without a point, such as "2"
IntText(n) == Str({}, Num(n * 10), TRUE, TRUE, n * 10)
\* a decimal literal with a point, such as "21.5"
DecText(v) == Str({}, Num(v), FALSE, TRUE, v)
List(elems) == [t |-> "list", elems |-> elems]
Obj(m) == [t |-> "obj", m |-> m]

Ok(v) == [ok |-> TRUE, val |-> v, exc |-> "none"]
Raise(e) == [ok |-> FALSE, val |-> Null, exc |-> e]

\* Python `key in x` for a str key
PyIn(key, x) ==
    CASE x.t = "obj" -> Ok(key \in DOMAIN x.m)
      [] x.t = "str" -> Ok(key \in x.sub)
      [] x.t = "list" ->
            Ok(\E i \in 1..Len(x.elems) : x.elems[i].t = "str" /\ x.elems[i].sub = {key})
      [] OTHER -> Raise("TypeError")

\* Python x[key] for a str key
PyGetItem(x, key) ==
    CASE x.t = "obj" -> IF key \in DOMAIN x.m THEN Ok(x.m[key]) ELSE Raise("KeyError")
      [] OTHER -> Raise("TypeError")

\* Python x[:100]
PySlice(x) ==
    CASE x.t \in {"str", "list"} -> Ok(x)
      [] OTHER -> Raise("TypeError")

\* json.loads(x) of a value x already in the program
JsonLoads(x) ==
    CASE x.t = "str" -> IF x.doc.t = "notjson" THEN Raise("JSONDecodeError") ELSE Ok(x.doc)
      [] OTHER -> Raise("TypeError")

\* truncation toward zero of a value in tenths, as int() of a float
Trunc(v) == IF v >= 0 THEN v \div 10 ELSE -((-v) \div 10)

\* int(x)
PyInt(x) ==
    CASE x.t = "num" -> Ok(Trunc(x.v))
      [] x.t = "str" -> IF x.isint THEN Ok(x.lit \div 10) ELSE Raise("ValueError")
      [] OTHER -> Raise("TypeError")

\* float(x), in tenths
PyFloat(x) ==
    CASE x.t = "num" -> Ok(x.v)
      [] x.t = "str" -> IF x.isfloat THEN Ok(x.lit) ELSE Raise("ValueError")
      [] OTHER -> Raise("TypeError")

(***************************************************************************)
(* The sample documents.  Inner documents are what the envelope's 'data'   *)
(* string contains; WireDoc gives the envelope each wire character denotes. *)
(***************************************************************************)
GoodTags == Obj([location |-> Word("lab"), device |-> Word("d1")])
GoodFields == Obj([temperature |-> Num(215), humidity |-> Num(402)])

InnerDoc(name) ==
    CASE name = "good" ->
            Obj([measurement |-> Word("env"), tags |-> GoodTags,
                 fields |-> GoodFields, timestamp |-> Num(20)])
      [] name = "good_text_numbers" ->
            Obj([measurement |-> Word("env"), tags |-> GoodTags,
                 fields |-> Obj([temperature |-> DecText(215), humidity |-> IntText(40)]),
                 timestamp |-> IntText(1)])
      [] name = "fraction_ts" ->
            Obj([measurement |-> Word("env"), tags |-> GoodTags,
                 fields |-> GoodFields, timestamp |-> Num(15)])
      [] name = "no_tags" ->
            Obj([measurement |-> Word("env"), fields |-> GoodFields, timestamp |-> Num(20)])
      [] name = "no_timestamp" ->
            Obj([measurement |-> Word("env"), tags |-> GoodTags, fields |-> GoodFields])
      [] name = "word_ts" ->
            Obj([measurement |-> Word("env"), tags |-> GoodTags,
                 fields |-> GoodFields, timestamp |-> Word("noon")])
      [] name = "no_location" ->
            Obj([measurement |-> Word("env"), tags |-> Obj([device |-> Word("d1")]),
                 fields |-> GoodFields, timestamp |-> Num(20)])
      [] name = "word_temperature" ->
            Obj([measurement |-> Word("env"), tags |-> GoodTags,
                 fields |-> Obj([temperature |-> Word("hot"), humidity |-> Num(402)]),
                 timestamp |-> Num(20)])
      [] name = "null_humidity" ->
            Obj([measurement |-> Word("env"), tags |-> GoodTags,
                 fields |-> Obj([temperature |-> Num(215), humidity |-> Null]),
                 timestamp |-> Num(20)])
      [] name = "no_humidity" ->
            Obj([measurement |-> Word("env"), tags |-> GoodTags,
                 fields |-> Obj([temperature |-> Num(215)]), timestamp |-> Num(20)])
      [] name = "other" -> Obj([other |-> Word("true")])
      [] name = "no_fields" -> Obj([measurement |-> Word("env")])
      [] name = "inner_number" -> Num(50)
      [] name = "inner_null" -> Null
      [] name = "inner_string" ->
            Str({"measurement", "fields"}, NotJson, FALSE, FALSE, 0)
      [] name = "inner_list" -> List(<<Word("measurement"), Word("fields")>>)
      [] OTHER -> NotJson

\* inner documents that arrive wrapped as {"data": "<serialised inner document>"}
InnerNames ==
    {"good", "good_text_numbers", "fraction_ts", "no_tags", "no_timestamp", "word_ts",
     "no_location", "word_temperature", "null_humidity", "no_humidity", "other",
     "no_fields", "inner_number", "inner_null", "inner_string", "inner_list"}

\* envelopes that are not of that form
OuterNames ==
    {"data_not_json", "number", "null", "string", "string_with_data", "list_with_data",
     "no_data", "data_null", "data_number", "data_list", "data_object"}

WireDoc(c) ==
    CASE c \in InnerNames -> Obj([data |-> Dump(InnerDoc(c)), ttl |-> Num(600)])
      [] c = "data_not_json" -> Obj([data |-> Word("hello")])
      [] c = "number" -> Num(50)
      [] c = "null" -> Null
      [] c = "string" -> Word("hello")
      [] c = "string_with_data" -> Word("data")
      [] c = "list_with_data" -> List(<<Word("data")>>)
      [] c = "no_data" -> Obj([name |-> Word("spark/status")])
      [] c = "data_null" -> Obj([data |-> Null])
      [] c = "data_number" -> Obj([data |-> Num(50)])
      [] c = "data_list" -> Obj([data |-> List(<<Num(10)>>)])
      [] c = "data_object" -> Obj([data |-> Obj([measurement |-> Word("env")])])
      [] OTHER -> NotJson

DocChars == InnerNames \cup OuterNames

\* the Python str a payload (a sequence of characters) is: json.loads accepts it
\* iff it is exactly one document character
PayloadText(event_data) ==
    IF Len(event_data) = 1 /\ event_data[1] \in DocChars
    THEN Dump(WireDoc(event_data[1]))
    ELSE Dump(NotJson)

(***************************************************************************)
(* process_event(event_data): lines 41-79.  sinkOk tells whether           *)
(* write_api.write returns (TRUE) or raises (FALSE).  The result tells     *)
(* whether write was called, with which point, and which branch ended the  *)
(* call: "written", "json_error" (except json.JSONDecodeError) or "error"  *)
(* (except Exception).                                                     *)
(***************************************************************************)
NoPoint == [measurement |-> Null, location |-> Null, device |-> Null,
            temperature |-> 0, humidity |-> 0, time |-> 0]

\* raised is the exception that leaves process_event ("none": it returned)
PEResult(branch, called, point) ==
    [branch |-> branch, called |-> called, point |-> point, raised |-> "none"]

\* BuildPoint with the operands of `*` in line 55 mistaken: no conversion
BuildPoint_Seconds(data) ==
    LET meas == PyGetItem(data, "measurement")
        tags == PyGetItem(data, "tags")
        flds == PyGetItem(data, "fields")
        ts   == PyGetItem(data, "timestamp")
    IN  IF ~(meas.ok /\ tags.ok /\ flds.ok /\ ts.ok) THEN Raise("KeyError")
        ELSE LET secs == PyInt(ts.val)
                 loc  == PyGetItem(tags.val, "location")
                 dev  == PyGetItem(tags.val, "device")
                 temp == PyGetItem(flds.val, "temperature")
                 hum  == PyGetItem(flds.val, "humidity")
             IN  IF ~(secs.ok /\ loc.ok /\ dev.ok /\ temp.ok /\ hum.ok) THEN Raise("KeyError")
                 ELSE IF ~(PyFloat(temp.val).ok /\ PyFloat(hum.val).ok) THEN Raise("ValueError")
                 ELSE Ok([measurement |-> meas.val, location |-> loc.val,
                          device |-> dev.val,
                          temperature |-> PyFloat(temp.val).val,
                          humidity |-> PyFloat(hum.val).val,
                          time |-> secs.val])

\* BuildPoint without the float() of lines 60-61: the field values are passed
\* on as they are (0 stands for a value that is no number)
BuildPoint_NoFloat(data) ==
    LET meas == PyGetItem(data, "measurement")
        tags == PyGetItem(data, "tags")
        flds == PyGetItem(data, "fields")
        ts   == PyGetItem(data, "timestamp")
    IN  IF ~(meas.ok /\ tags.ok /\ flds.ok /\ ts.ok) THEN Raise("KeyError")
        ELSE LET secs == PyInt(ts.val)
                 loc  == PyGetItem(tags.val, "location")
                 dev  == PyGetItem(tags.val, "device")
                 temp == PyGetItem(flds.val, "temperature")
                 hum  == PyGetItem(flds.val, "humidity")
             IN  IF ~(secs.ok /\ loc.ok /\ dev.ok /\ temp.ok /\ hum.ok) THEN Raise("KeyError")
                 ELSE Ok([measurement |-> meas.val, location |-> loc.val,
                          device |-> dev.val,
                          temperature |-> IF PyFloat(temp.val).ok THEN PyFloat(temp.val).val ELSE 0,
                          humidity |-> IF PyFloat(hum.val).ok THEN PyFloat(hum.val).val ELSE 0,
                          time |-> secs.val * NS_PER_SECOND])

\* lines 55-62: the point built from a decoded reading, or the exception raised
BuildPoint(data) ==
    LET meas == PyGetItem(data, "measurement")
        tags == PyGetItem(data, "tags")
        flds == PyGetItem(data, "fields")
        ts   == PyGetItem(data, "timestamp")
    IN  IF ~(meas.ok /\ tags.ok /\ flds.ok /\ ts.ok) THEN Raise("KeyError")
        ELSE LET secs == PyInt(ts.val)
                 loc  == PyGetItem(tags.val, "location")
                 dev  == PyGetItem(tags.val, "device")
                 temp == PyGetItem(flds.val, "temperature")
                 hum  == PyGetItem(flds.val, "humidity")
             IN  IF ~secs.ok THEN Raise(secs.exc)
                 ELSE IF ~loc.ok THEN Raise(loc.exc)
                 ELSE IF ~dev.ok THEN Raise(dev.exc)
                 ELSE IF ~temp.ok THEN Raise(temp.exc)
                 ELSE IF ~PyFloat(temp.val).ok THEN Raise(PyFloat(temp.val).exc)
                 ELSE IF ~hum.ok THEN Raise(hum.exc)
                 ELSE IF ~PyFloat(hum.val).ok THEN Raise(PyFloat(hum.val).exc)
                 ELSE Ok([measurement |-> meas.val, location |-> loc.val,
                          device |-> dev.val,
                          temperature |-> PyFloat(temp.val).val,
                          humidity |-> PyFloat(hum.val).val,
                          time |-> secs.val * NS_PER_SECOND])

\* process_event without the handler of line 75: the sink's exception leaves it
process_event_Uncaught(event_data, sinkOk) ==
    LET data == JsonLoads(event_data)
    IN  IF ~data.ok THEN PEResult("json_error", FALSE, NoPoint)
        ELSE LET point == BuildPoint(data.val)
             IN  IF ~point.ok THEN PEResult("error", FALSE, NoPoint)
                 ELSE IF sinkOk THEN PEResult("written", TRUE, point.val)
                 ELSE [branch |-> "none", called |-> TRUE, point |-> point.val,
                       raised |-> "Exception"]

process_event(event_data, sinkOk) ==
    LET data == JsonLoads(event_data)
    IN  IF ~data.ok
        THEN PEResult(IF data.exc = "JSONDecodeError" THEN "json_error" ELSE "error",
                      FALSE, NoPoint)
        ELSE LET point == BuildPoint(data.val)
             IN  IF ~point.ok THEN PEResult("error", FALSE, NoPoint)
                 ELSE IF sinkOk THEN PEResult("written", TRUE, point.val)
                 ELSE PEResult("error", TRUE, point.val)

(***************************************************************************)
(* The frame decoder of main(): lines 99-117.                              *)
(***************************************************************************)
\* the first index at which sep occurs in s, 0 if none (str.find, 1-based)
Find(s, sep) ==
    LET hits == {i \in 1..(Len(s) - Len(sep) + 1) : SubSeq(s, i, i + Len(sep) - 1) = sep}
    IN  IF hits = {} THEN 0 ELSE CHOOSE i \in hits : \A j \in hits : i <= j

\* '\n\n' in buffer
Contains(s, sep) == Find(s, sep) # 0

\* s.split(sep): the pieces between the occurrences of sep, found left to right
RECURSIVE Split(_, _)
Split(s, sep) ==
    LET i == Find(s, sep)
    IN  IF i = 0 THEN <<s>>
        ELSE <<SubSeq(s, 1, i - 1)>> \o Split(SubSeq(s, i + Len(sep), Len(s)), sep)

\* line.startswith('data: ')
StartsWith(line, prefix) ==
    Len(line) >= Len(prefix) /\ SubSeq(line, 1, Len(prefix)) = prefix

\* message.strip() is empty
IsBlank(message) == \A i \in 1..Len(message) : message[i] \in Whitespace

\* EventData that keeps the last line starting with the prefix, not the first
EventData_LastLine(message) ==
    LET lines == Split(message, <<NL>>)
        idx == {i \in 1..Len(lines) : StartsWith(lines[i], DataPrefix)}
    IN  IF idx = {} THEN <<>>
        ELSE LET last_ == CHOOSE i \in idx : \A j \in idx : i >= j
             IN  SubSeq(lines[last_], PrefixLen + 1, Len(lines[last_]))

\* lines 111-117: event_data of a message; <<>> stands for None as well as for
\* the empty string, which `if event_data:` treats alike
EventData(message) ==
    LET lines == Split(message, <<NL>>)
        idx == {i \in 1..Len(lines) : StartsWith(lines[i], DataPrefix)}
    IN  IF idx = {} THEN <<>>
        ELSE LET first == CHOOSE i \in idx : \A j \in idx : i <= j
             IN  SubSeq(lines[first], PrefixLen + 1, Len(lines[first]))

\* FeedChunk that releases the first message only and keeps all the rest
FeedChunk_SplitOnce(buf, chunk) ==
    LET joined == buf \o chunk
        i == Find(joined, Delimiter)
    IN  IF i # 0
        THEN [buffer |-> SubSeq(joined, i + Len(Delimiter), Len(joined)),
              messages |-> <<SubSeq(joined, 1, i - 1)>>]
        ELSE [buffer |-> joined, messages |-> <<>>]

\* FeedChunk that looks for the delimiter in the chunk, not in the buffer
FeedChunk_ChunkOnly(buf, chunk) ==
    LET joined == buf \o chunk
    IN  IF Contains(chunk, Delimiter)
        THEN LET parts == Split(joined, Delimiter)
             IN  [buffer |-> parts[Len(parts)], messages |-> SubSeq(parts, 1, Len(parts) - 1)]
        ELSE [buffer |-> joined, messages |-> <<>>]

\* lines 101-106: the buffer after a chunk, and the complete messages
\* (messages[:-1]) the chunk released
FeedChunk(buf, chunk) ==
    LET joined == buf \o chunk
    IN  IF Contains(joined, Delimiter)
        THEN LET parts == Split(joined, Delimiter)
             IN  [buffer |-> parts[Len(parts)], messages |-> SubSeq(parts, 1, Len(parts) - 1)]
        ELSE [buffer |-> joined, messages |-> <<>>]

\* lines 108-119: the payloads of a list of messages, in order
RECURSIVE Payloads(_)
Payloads(msgs) ==
    IF msgs = <<>> THEN <<>>
    ELSE LET ed == IF IsBlank(Head(msgs)) THEN <<>> ELSE EventData(Head(msgs))
         IN  (IF ed = <<>> THEN <<>> ELSE <<ed>>) \o Payloads(Tail(msgs))

(***************************************************************************)
(* The envelope processing of main(): lines 108-148, for one message.      *)
(* log is the branch that printed, raised the exception that leaves the    *)
(* for-loop towards the handlers of lines 150-160 ("none": none does).     *)
(***************************************************************************)
NoCall == PEResult("none", FALSE, NoPoint)

Handled(event_data, log, raised, pe) ==
    [event_data |-> event_data, log |-> log, raised |-> raised, pe |-> pe]

\* lines 127-144, wrapper decoded
HandleWrapper(event_data, wrapper, sinkOk) ==
    LET hasData == PyIn("data", wrapper)
    IN  IF ~hasData.ok THEN Handled(event_data, "none", hasData.exc, NoCall)
        ELSE IF ~hasData.val THEN Handled(event_data, "no_data_field", "none", NoCall)
        ELSE LET field == PyGetItem(wrapper, "data")
             IN  IF ~field.ok THEN Handled(event_data, "none", field.exc, NoCall)
                 ELSE IF ~PySlice(field.val).ok
                      THEN Handled(event_data, "none", PySlice(field.val).exc, NoCall)
                 ELSE LET sensor_data == JsonLoads(field.val)
                      IN  IF ~sensor_data.ok
                          THEN Handled(event_data, "not_json", "none", NoCall)
                          ELSE LET m == PyIn("measurement", sensor_data.val)
                                   f == PyIn("fields", sensor_data.val)
                               IN  IF ~m.ok THEN Handled(event_data, "not_json", "none", NoCall)
                                   ELSE IF m.val /\ f.val
                                   THEN LET pe == process_event(field.val, sinkOk)
                                        IN  Handled(event_data, "valid_reading", pe.raised, pe)
                                   ELSE Handled(event_data, "not_sensor_format", "none", NoCall)

HandleMessage(message, sinkOk) ==
    IF IsBlank(message) THEN Handled(<<>>, "none", "none", NoCall)
    ELSE LET event_data == EventData(message)
         IN  IF event_data = <<>> THEN Handled(<<>>, "none", "none", NoCall)
             ELSE LET wrapper == JsonLoads(PayloadText(event_data))
                  IN  IF ~wrapper.ok
                      THEN Handled(event_data, "wrapper_parse_error", "none", NoCall)
                      ELSE HandleWrapper(event_data, wrapper.val, sinkOk)

(***************************************************************************)
(* main(): lines 82-160.                                                   *)
(*                                                                         *)
(* pc is the place of control:                                             *)
(*   "connecting"  in requests.get / raise_for_status (lines 88-93)        *)
(*   "streaming"   waiting for the next chunk of iter_content (line 100)   *)
(*   "processing"  inside `for message in messages[:-1]` (lines 108-148)   *)
(*   "backoff"     in the handler of line 153, in time.sleep (line 157)    *)
(*   "done"        main() has returned after `break` (line 152)            *)
(*   "crashed"     an exception has left main()                            *)
(***************************************************************************)
VARIABLES
    pc,
    retry_delay,    \* the local of line 83
    buffer,         \* the local of line 99
    messages,       \* messages[:-1] not yet handled
    response,       \* the object bound to `response`: "none", "open", "released"
    inflight,       \* characters of the current line the transport still holds
    cause,          \* what raised into the handler of line 153
    fails,          \* failed connection attempts since the last successful one
    waits,          \* completed sleeps since the last successful connection
    signalled,      \* KeyboardInterrupt has been raised
    nframes,        \* complete frames handled so far
    nvalid,         \* of these, payloads that pass every validation step
    nwrites,        \* calls of write_api.write so far
    last,           \* what handling the latest frame did
    dropped,        \* the buffer held an incomplete frame when this connection opened
    wire,           \* stand-alone decoder: the whole input
    rest,           \* stand-alone decoder: the part not yet fed
    dbuf,           \* stand-alone decoder: its buffer
    dout,           \* stand-alone decoder: payloads extracted so far
    dsplit          \* stand-alone decoder: a chunk boundary fell inside a delimiter

mainVars == <<pc, retry_delay, buffer, messages, response, inflight, cause, fails, waits,
              signalled, nframes, nvalid, nwrites, last, dropped>>
decVars == <<wire, rest, dbuf, dout, dsplit>>
vars == <<mainVars, decVars>>

\* what handling a frame did: the branch of main() that logged, the exception
\* that left the for-loop, process_event's result, and the sink's answer
Outcome(h, sinkOk) ==
    [log |-> h.log, raised |-> h.raised, pe |-> h.pe, sinkOk |-> sinkOk]
NoFrame == Outcome(Handled(<<>>, "none", "none", NoCall), TRUE)

MainInit ==
    /\ pc = "connecting"
    /\ retry_delay = InitialDelay
    /\ buffer = <<>>
    /\ messages = <<>>
    /\ response = "none"
    /\ inflight = <<>>
    /\ cause = "none"
    /\ fails = 0
    /\ waits = 0
    /\ signalled = FALSE
    /\ nframes = 0
    /\ nvalid = 0
    /\ nwrites = 0
    /\ last = NoFrame
    /\ dropped = FALSE

DecIdle == wire = <<>> /\ rest = <<>> /\ dbuf = <<>> /\ dout = <<>> /\ dsplit = FALSE

Init == MainInit /\ DecIdle

history == <<nframes, nvalid, nwrites, last>>

\* the handler of lines 153-156 is entered: control reaches time.sleep
ToBackoff(why) ==
    /\ pc' = "backoff"
    /\ cause' = why
    /\ messages' = <<>>

\* ConnectOK without line 99: the buffer of the previous connection is kept
ConnectOK_KeepBuffer ==
    /\ pc = "connecting"
    /\ pc' = "streaming"
    /\ response' = "open"
    /\ retry_delay' = InitialDelay
    /\ buffer' = buffer
    /\ inflight' = <<>>
    /\ fails' = 0
    /\ waits' = 0
    /\ dropped' = (buffer # <<>>)
    /\ UNCHANGED <<messages, cause, signalled, history, decVars>>

\* lines 92-99: requests.get returns a response with a success status
ConnectOK ==
    /\ pc = "connecting"
    /\ pc' = "streaming"
    /\ response' = "open"
    /\ retry_delay' = InitialDelay
    /\ buffer' = <<>>
    /\ inflight' = <<>>
    /\ fails' = 0
    /\ waits' = 0
    /\ dropped' = (buffer # <<>>)
    /\ UNCHANGED <<messages, cause, signalled, history, decVars>>

\* line 92: requests.get raises (DNS, TCP, timeout); `response` keeps its binding
ConnectRefused ==
    /\ pc = "connecting"
    /\ waits < MaxWaits
    /\ ToBackoff("connect")
    /\ fails' = fails + 1
    /\ UNCHANGED <<retry_delay, buffer, response, inflight, waits, signalled, history, decVars, dropped>>

\* ConnectBadStatus that runs line 96 before the status is checked
ConnectBadStatus_Resets ==
    /\ pc = "connecting"
    /\ waits < MaxWaits
    /\ ToBackoff("status")
    /\ response' = "open"
    /\ fails' = fails + 1
    /\ retry_delay' = InitialDelay
    /\ UNCHANGED <<buffer, inflight, waits, signalled, history, decVars, dropped>>

\* lines 92-93: requests.get returns a response whose status makes
\* raise_for_status raise; nothing closes the response
ConnectBadStatus ==
    /\ pc = "connecting"
    /\ waits < MaxWaits
    /\ ToBackoff("status")
    /\ response' = "open"
    /\ fails' = fails + 1
    /\ UNCHANGED <<retry_delay, buffer, inflight, waits, signalled, history, decVars, dropped>>

\* the lines the transport sends in this model: an empty line, a line "x",
\* and a data line whose payload character "?" is chosen when it is sent
Hole == "?"
WireLines == {<<NL>>, <<"x", NL>>, DataPrefix \o <<Hole>> \o <<NL>>}
PayloadChars == DocChars \cup {"x"}

\* ReadChunk that does not wait for the messages of the previous chunk: the
\* next chunk is read while a message is still to be handled
ReadChunk_WhileProcessing ==
    /\ pc \in {"streaming", "processing"}
    /\ nframes < MaxFrames
    /\ \E line \in (IF inflight = <<>> THEN WireLines ELSE {inflight}) :
       \E c \in (IF Head(line) = Hole THEN PayloadChars ELSE {Head(line)}) :
          /\ Len(buffer) + Len(line) <= MaxBuf
          /\ LET fed == FeedChunk(buffer, SubSeq(<<c>>, 1, chunk_size))
             IN  /\ buffer' = fed.buffer
                 /\ messages' = messages \o fed.messages
                 /\ pc' = IF messages \o fed.messages = <<>> THEN "streaming" ELSE "processing"
          /\ inflight' = Tail(line)
    /\ UNCHANGED <<retry_delay, response, cause, fails, waits, signalled, history, decVars, dropped>>

\* lines 100-106: iter_content yields the next chunk of chunk_size characters
ReadChunk ==
    /\ pc = "streaming"
    /\ nframes < MaxFrames
    /\ \E line \in (IF inflight = <<>> THEN WireLines ELSE {inflight}) :
       \E c \in (IF Head(line) = Hole THEN PayloadChars ELSE {Head(line)}) :
          /\ Len(buffer) + Len(line) <= MaxBuf
          /\ LET fed == FeedChunk(buffer, SubSeq(<<c>>, 1, chunk_size))
             IN  /\ buffer' = fed.buffer
                 /\ messages' = fed.messages
                 /\ pc' = IF fed.messages = <<>> THEN "streaming" ELSE "processing"
          /\ inflight' = Tail(line)
    /\ UNCHANGED <<retry_delay, response, cause, fails, waits, signalled, history, decVars, dropped>>

\* "all validation steps" as the specification lists them
IsObjWith(v, keys) == v.t = "obj" /\ keys \subseteq DOMAIN v.m
ToInt(v) == v.t = "num" \/ (v.t = "str" /\ v.isint)
ToFloat(v) == v.t = "num" \/ (v.t = "str" /\ v.isfloat)
ValidReading(r) ==
    /\ IsObjWith(r, {"measurement", "fields", "tags", "timestamp"})
    /\ IsObjWith(r.m.tags, {"location", "device"})
    /\ IsObjWith(r.m.fields, {"temperature", "humidity"})
    /\ ToFloat(r.m.fields.m.temperature)
    /\ ToFloat(r.m.fields.m.humidity)
    /\ ToInt(r.m.timestamp)
ValidEnvelope(w) ==
    /\ IsObjWith(w, {"data"})
    /\ w.m.data.t = "str"
    /\ w.m.data.doc.t # "notjson"
    /\ ValidReading(w.m.data.doc)
ValidPayload(event_data) ==
    /\ Len(event_data) = 1
    /\ event_data[1] \in DocChars
    /\ ValidEnvelope(WireDoc(event_data[1]))

\* WriteCalls that calls the sink's write again after a write that raised
WriteCalls_Retry(pe) ==
    IF pe.called THEN (IF pe.branch = "error" THEN 2 ELSE 1) ELSE 0

\* line 68: the calls of write_api.write that one process_event makes; the
\* handlers of lines 72-79 only print
WriteCalls(pe) == IF pe.called THEN 1 ELSE 0

\* lines 108-148 for the next message; the sink's write returns or raises
ProcessMessage ==
    /\ pc = "processing"
    /\ \E sinkOk \in (IF HandleMessage(Head(messages), TRUE).pe.called
                       THEN BOOLEAN ELSE {TRUE}) :
          LET h == HandleMessage(Head(messages), sinkOk)
          IN  /\ last' = Outcome(h, sinkOk)
              /\ nframes' = nframes + 1
              /\ nvalid' = nvalid + (IF ValidPayload(h.event_data) THEN 1 ELSE 0)
              /\ nwrites' = nwrites + WriteCalls(h.pe)
              /\ IF h.raised # "none"
                 THEN ToBackoff("payload")
                 ELSE /\ messages' = Tail(messages)
                      /\ pc' = IF Tail(messages) = <<>> THEN "streaming" ELSE "processing"
                      /\ cause' = cause
    /\ UNCHANGED <<retry_delay, buffer, response, inflight, fails, waits, signalled, decVars, dropped>>

\* line 100: iter_content raises (the connection broke); the transport is gone
ReadError ==
    /\ pc = "streaming"
    /\ waits < MaxWaits
    /\ ToBackoff("read")
    /\ response' = "released"
    /\ inflight' = <<>>
    /\ UNCHANGED <<retry_delay, buffer, fails, waits, signalled, history, decVars, dropped>>

\* line 100: iter_content is exhausted; the for loop ends and `while True`
\* starts its next iteration at line 87
EndOfStream ==
    /\ pc = "streaming"
    /\ pc' = "connecting"
    /\ response' = "released"
    /\ inflight' = <<>>
    /\ UNCHANGED <<retry_delay, buffer, messages, cause, fails, waits, signalled,
                   history, decVars, dropped>>

\* a delay that grows by the initial delay instead of doubling
NextDelay_AddInitial(delay) ==
    IF delay + InitialDelay < max_retry_delay THEN delay + InitialDelay ELSE max_retry_delay

\* a doubling that forgets the cap
NextDelay_Uncapped(delay) == delay * 2

\* line 160: min(retry_delay * 2, max_retry_delay)
NextDelay(delay) == IF delay * 2 < max_retry_delay THEN delay * 2 ELSE max_retry_delay

\* SleepDone that doubles the delay and waits again without a new attempt
SleepDone_WaitsAgain ==
    /\ pc = "backoff"
    /\ pc' = "backoff"
    /\ retry_delay' = NextDelay(retry_delay)
    /\ UNCHANGED <<buffer, messages, response, inflight, cause, fails, waits, signalled,
                   history, decVars, dropped>>

\* lines 157-160: time.sleep returns, the delay doubles
SleepDone ==
    /\ pc = "backoff"
    /\ pc' = "connecting"
    /\ retry_delay' = NextDelay(retry_delay)
    /\ waits' = waits + 1
    /\ cause' = "none"
    /\ UNCHANGED <<buffer, messages, response, inflight, fails, signalled, history, decVars, dropped>>

\* the handler of line 150 without its `break`: the loop goes on
InterruptInTry_NoBreak ==
    /\ pc \in {"connecting", "streaming", "processing"}
    /\ pc' = "connecting"
    /\ signalled' = TRUE
    /\ messages' = <<>>
    /\ UNCHANGED <<retry_delay, buffer, response, inflight, cause, fails, waits,
                   history, decVars, dropped>>

\* lines 150-152: KeyboardInterrupt raised inside the try block
InterruptInTry ==
    /\ pc \in {"connecting", "streaming", "processing"}
    /\ pc' = "done"
    /\ signalled' = TRUE
    /\ UNCHANGED <<retry_delay, buffer, messages, response, inflight, cause, fails, waits,
                   history, decVars, dropped>>

\* lines 153-160: KeyboardInterrupt raised inside the handler of
\* `except Exception`, which no clause of the same try statement catches
InterruptInHandler ==
    /\ pc = "backoff"
    /\ pc' = "crashed"
    /\ signalled' = TRUE
    /\ UNCHANGED <<retry_delay, buffer, messages, response, inflight, cause, fails, waits,
                   history, decVars, dropped>>

Next ==
    \/ ConnectOK
    \/ ConnectRefused
    \/ ConnectBadStatus
    \/ ReadChunk
    \/ ProcessMessage
    \/ ReadError
    \/ EndOfStream
    \/ SleepDone
    \/ InterruptInTry
    \/ InterruptInHandler

Spec == Init /\ [][Next]_vars

\* the payloads the transport sends when progress is checked: a valid reading
\* and a payload whose handling raises out of the streaming loop
LivePayloads == {"good", "number"}

\* main() with the transport sending these payloads only
NextLive == Next /\ \A i \in DOMAIN buffer' : buffer'[i] \in DocChars => buffer'[i] \in LivePayloads

\* lines 157-160 under fair scheduling: time.sleep(retry_delay) sleeps a finite
\* time (at most max_retry_delay), so a wait that is not interrupted ends
SpecLive == Init /\ [][NextLive]_vars /\ WF_vars(SleepDone)

(***************************************************************************)
(* The frame decoder on its own (lines 99-119): an input, built from a few *)
(* pieces, is fed in chunks of any size >= 1.                              *)
(***************************************************************************)
DecoderAtoms == {<<NL>>, <<"x">>, <<SP>>, DataPrefix}

RECURSIVE Inputs(_)
Inputs(n) ==
    IF n = 0 THEN {<<>>}
    ELSE Inputs(n - 1) \cup {a \o s : a \in DecoderAtoms, s \in Inputs(n - 1)}

DecInit ==
    /\ MainInit
    /\ wire \in Inputs(MaxAtoms)
    /\ rest = wire
    /\ dbuf = <<>>
    /\ dout = <<>>
    /\ dsplit = FALSE

\* lines 100-119 for one chunk: the first n characters not yet fed
Feed ==
    /\ rest # <<>>
    /\ \E n \in 1..Len(rest) :
          LET fed == FeedChunk(dbuf, SubSeq(rest, 1, n))
          IN  /\ dbuf' = fed.buffer
              /\ dout' = dout \o Payloads(fed.messages)
              /\ rest' = SubSeq(rest, n + 1, Len(rest))
              /\ dsplit' = (dsplit \/ (dbuf # <<>> /\ dbuf[Len(dbuf)] = NL /\ rest[1] = NL))
    /\ UNCHANGED <<wire, mainVars>>

SpecDecoder == DecInit /\ [][Feed]_vars

(***************************************************************************)
(* The claims.                                                             *)
(***************************************************************************)
Streaming == {"streaming", "processing"}
Stopped == {"done", "crashed"}

\* min(5 * 2^(k-1), 60)
Backoff(k) == IF InitialDelay * 2 ^ (k - 1) < max_retry_delay
              THEN InitialDelay * 2 ^ (k - 1) ELSE max_retry_delay

\* a step of ProcessMessage: one more frame has been handled
FrameStep == pc = "processing" /\ nframes' = nframes + 1

\* the payload and the reading of the frame about to be handled
NextPayload == EventData(Head(messages))
NextReading == WireDoc(NextPayload[1]).m.data.doc
\* the numeric value, in tenths, of a value int() or float() accepts
NumVal(v) == IF v.t = "num" THEN v.v ELSE v.lit

\* C1 as stated: the wait that follows the k-th consecutive failed connection
\* attempt since the last successful connection is min(5 * 2^(k-1), 60).
C1_WaitAfterKthFailedAttempt ==
    (pc = "backoff" /\ cause \in {"connect", "status"}) => retry_delay = Backoff(fails)

\* C1 amended: the k-th consecutive wait since program start or since the last
\* successful connection, whatever raised into the handler, is
\* min(5 * 2^(k-1), 60); in particular the first wait after a successful
\* connection is 5 and each later one is min(previous * 2, 60).
C1_KthConsecutiveWait == retry_delay = Backoff(waits + 1)

\* the sixth wait in a row: the cap of 60 applies for the second time
C1_Witness == pc = "backoff" /\ waits = 5 /\ retry_delay = max_retry_delay

\* C2: a streaming session that ends (other than by the shutdown signal) is
\* followed by the backoff wait; no step leads from Streaming to Connecting.
C2_StreamEndWaits ==
    [][(pc \in Streaming /\ pc' \notin Streaming /\ pc' # "done") => pc' = "backoff"]_vars

\* C3: handling a payload, whichever validation step it fails, leaves the
\* supervisor streaming on the same connection with the delay unchanged.
C3_PayloadKeepsConnection ==
    [][FrameStep => (pc' \in Streaming /\ retry_delay' = retry_delay
                     /\ response' = response /\ last'.raised = "none")]_vars

\* C4: the number of calls of the sink's write is at most the number of
\* payloads seen that pass every validation step.
C4_WritesOnlyValid == nwrites <= nvalid

\* two frames handled, one valid and written, the other rejected
C4_Witness == nframes = 2 /\ nvalid = 1 /\ nwrites = 1

\* C5: however the input is cut into chunks, the payloads extracted and the
\* buffer left are those of feeding all that was fed as one chunk.
C5_ChunkInvariance ==
    LET whole == FeedChunk(<<>>, SubSeq(wire, 1, Len(wire) - Len(rest)))
    IN  dbuf = whole.buffer /\ dout = Payloads(whole.messages)

\* an input fed to its end, with a chunk boundary inside a delimiter, that
\* gave a payload and left an incomplete frame
C5_Witness == dsplit /\ rest = <<>> /\ dout # <<>> /\ dbuf # <<>>

\* C6: the shutdown signal never leaves main() as an uncaught error.
C6_SignalNeverEscapes == pc # "crashed"

\* C7: the loop is left only after the cancellation signal, and once the
\* signal has been raised nothing more happens: no connection attempt, no
\* wait, no write.
C7_StopsOnlyOnSignal ==
    /\ [](pc \in Stopped => signalled)
    /\ [][signalled => (pc' = pc /\ nwrites' = nwrites /\ waits' = waits
                        /\ response' = response)]_vars

\* main() has returned after at least one wait and one written reading
C7_Witness == pc = "done" /\ signalled /\ waits > 0 /\ nwrites > 0

\* the point the sink receives for a valid reading, but for its time
ExpectedPoint(r, point) ==
    /\ point.measurement = r.m.measurement
    /\ point.location = r.m.tags.m.location
    /\ point.device = r.m.tags.m.device
    /\ point.temperature = NumVal(r.m.fields.m.temperature)
    /\ point.humidity = NumVal(r.m.fields.m.humidity)

\* C8 as stated: a valid payload causes exactly one write, of a point with the
\* input's measurement, tags and field values, and the input timestamp times
\* 1,000,000,000 (the input is held in tenths, so it is multiplied by 10^8).
C8_TimeIsInputTimesBillion ==
    [][(FrameStep /\ ValidPayload(NextPayload)) =>
          /\ nwrites' = nwrites + 1
          /\ ExpectedPoint(NextReading, last'.pe.point)
          /\ last'.pe.point.time
                = NumVal(NextReading.m.timestamp) * (NS_PER_SECOND \div 10)]_vars

\* C8 amended: the timestamp written is the input timestamp truncated to whole
\* seconds, times 1,000,000,000.
C8_TimeIsWholeSecondsTimesBillion ==
    [][(FrameStep /\ ValidPayload(NextPayload)) =>
          /\ nwrites' = nwrites + 1
          /\ last'.pe.called
          /\ (last'.sinkOk => last'.pe.branch = "written")
          /\ ExpectedPoint(NextReading, last'.pe.point)
          /\ last'.pe.point.time
                = Trunc(NumVal(NextReading.m.timestamp)) * NS_PER_SECOND]_vars

\* the reading with timestamp 1.5 has been written with time 1,000,000,000
C8_Witness ==
    /\ last.pe.branch = "written"
    /\ last.pe.point.time = NS_PER_SECOND
    /\ last.pe.point.humidity = 402

\* C9: when write() raises, process_event catches it: the supervisor stays in
\* Streaming on the same connection, delay and buffer are unchanged, and the
\* loop goes on to the next frame.
C9_WriteFailureKeepsConnection ==
    [][(FrameStep /\ last'.pe.called /\ ~last'.sinkOk) =>
          /\ pc' \in Streaming
          /\ last'.raised = "none"
          /\ last'.pe.branch = "error"
          /\ retry_delay' = retry_delay
          /\ buffer' = buffer
          /\ response' = response
          /\ messages' = Tail(messages)]_vars

\* after a failed write the next line is being read on the same connection
C9_Witness ==
    /\ pc = "streaming"
    /\ last.pe.called /\ ~last.sinkOk
    /\ response = "open"
    /\ buffer # <<>>

\* C10: no connection attempt starts while an earlier response is still open.
C10_ReleasedBeforeReconnect == ~(pc = "connecting" /\ response = "open")

\* C11: frames are handled in arrival order with no queue: while a message is
\* being handled no chunk is read (buffer and transport stay as they are), the
\* message handled is the oldest one not yet handled, every write is the write
\* of the message being handled, and no message waits while a chunk is read.
C11_InOrderNoQueue ==
    /\ [](pc = "streaming" => messages = <<>>)
    /\ [][/\ pc = "processing" =>
                (buffer' = buffer /\ inflight' = inflight
                 /\ messages' \in {messages, Tail(messages), <<>>})
          /\ nwrites' # nwrites =>
                (FrameStep /\ nwrites' = nwrites + 1
                 /\ ValidPayload(NextPayload)
                 /\ ExpectedPoint(NextReading, last'.pe.point))]_vars

\* a second frame is about to be handled after the first one was written
C11_Witness == pc = "processing" /\ nframes = 1 /\ nwrites = 1 /\ last.pe.branch = "written"

\* C12: every streaming session starts with an empty buffer, so an incomplete
\* frame left over when a connection ended is dropped; outside a streaming
\* session no frame is handled and nothing is written.
C12_FreshBufferPerSession ==
    [][/\ (pc = "connecting" /\ pc' = "streaming") => buffer' = <<>>
       /\ pc \notin Streaming => (nframes' = nframes /\ nwrites' = nwrites)]_vars

\* after an incomplete frame was dropped, a complete frame of the new
\* connection is about to be handled, and it holds the new characters only
C12_Witness ==
    /\ dropped
    /\ pc = "processing"
    /\ nframes = 0
    /\ messages = <<DataPrefix \o <<"good">>>>

\* the position in frame f of the first line that starts with `data: `, 0 if
\* there is none: a line starts at the frame's start and after each newline
FirstDataLine(f) ==
    LET starts == {i \in 1..Len(f) :
                      /\ i = 1 \/ f[i - 1] = NL
                      /\ i + 5 <= Len(f)
                      /\ \A k \in 1..6 : f[i + k - 1] = DataPrefix[k]}
    IN  IF starts = {} THEN 0 ELSE CHOOSE i \in starts : \A j \in starts : i <= j

\* the text of frame f from position i to the end of the line holding i
UpToLineEnd(f, i) ==
    LET nls == {j \in i..Len(f) : f[j] = NL}
    IN  IF nls = {} THEN SubSeq(f, i, Len(f))
        ELSE SubSeq(f, i, (CHOOSE j \in nls : \A k \in nls : j <= k) - 1)

\* what a frame is expected to yield: nothing, or the one remainder (an empty
\* remainder is no payload)
FramePayload(f) ==
    LET i == FirstDataLine(f)
    IN  IF i = 0 THEN <<>>
        ELSE IF UpToLineEnd(f, i + 6) = <<>> THEN <<>> ELSE <<UpToLineEnd(f, i + 6)>>

RECURSIVE FramePayloads(_)
FramePayloads(frames) ==
    IF frames = <<>> THEN <<>> ELSE FramePayload(Head(frames)) \o FramePayloads(Tail(frames))

\* the complete frames of what has been fed so far
FramesFed ==
    LET parts == Split(SubSeq(wire, 1, Len(wire) - Len(rest)), Delimiter)
    IN  SubSeq(parts, 1, Len(parts) - 1)

\* C13: each complete frame yields at most one payload, the remainder after
\* `data: ` of the first line of the frame that starts with it; later such
\* lines are ignored and a frame without such a line yields nothing.
C13_FirstDataLinePayload ==
    /\ dout = FramePayloads(FramesFed)
    /\ Len(dout) <= Len(FramesFed)

\* a frame with two `data: ` lines, the second with an empty remainder, has
\* been fed and gave the remainder of the first
C13_Witness ==
    /\ wire = DataPrefix \o <<"x", NL>> \o DataPrefix \o <<NL, NL>>
    /\ rest = <<>>
    /\ dout = <<<<"x">>>>

\* the frame about to be handled carries an envelope whose `data` is a string
\* that does not decode to an object with both `measurement` and `fields`
NextIsNotAReading ==
    /\ Len(NextPayload) = 1
    /\ NextPayload[1] \in DocChars
    /\ IsObjWith(WireDoc(NextPayload[1]), {"data"})
    /\ WireDoc(NextPayload[1]).m.data.t = "str"
    /\ ~IsObjWith(NextReading, {"measurement", "fields"})

\* C14: a payload whose `data` does not decode to an object with both a
\* `measurement` and a `fields` key is an informational skip: process_event
\* is not called for it and its error branch is not taken.
C14_NonReadingsSkipped ==
    [][(FrameStep /\ NextIsNotAReading) =>
          /\ last'.log \in {"not_json", "not_sensor_format"}
          /\ ~last'.pe.called
          /\ last'.pe.branch # "error"]_vars

\* C15: no write is retried: handling one frame calls the sink's write at most
\* once, whether the call returns or raises, so the number of write calls
\* never exceeds the number of complete frames handled.
C15_NoWriteRetry ==
    /\ [](nwrites <= nframes)
    /\ [][nwrites' # nwrites => (FrameStep /\ nwrites' = nwrites + 1)]_vars

\* two frames handled, each with one write call, the second of which raised
C15_Witness ==
    /\ nframes = 2 /\ nwrites = 2
    /\ last.pe.called /\ ~last.sinkOk /\ last.pe.branch = "error"

\* C16: the supervisor never gets stuck: unless the shutdown signal arrives,
\* every wait that follows a connection failure or the end of a streaming
\* session is followed by a new connection attempt, and main() has not
\* returned as long as no signal has arrived.
C16_AlwaysRetries ==
    /\ (pc = "backoff") ~> (pc = "connecting" \/ signalled)
    /\ [](~signalled => pc \notin Stopped)
    /\ [][(pc \in Streaming /\ pc' \notin Streaming /\ ~signalled')
             => pc' \in {"backoff", "connecting"}]_vars

\* a new attempt is about to be made after a session that handled a frame and
\* broke, a wait, a refused connection and a second wait; no signal arrived
C16_Witness ==
    /\ pc = "connecting" /\ ~signalled
    /\ nframes = 1 /\ fails = 1 /\ waits = 2

\* C17: a response with a non-success status is a failed connection: it
\* leaves the delay as it is (no reset to 5), feeds nothing to the decoder and
\* handles no frame, and is followed by a wait of the current delay, after
\* which the delay is doubled and capped at 60, as after a refused connection.
C17_BadStatusIsAFailure ==
    [][/\ (pc = "connecting" /\ cause' = "status") =>
             /\ pc' = "backoff"
             /\ retry_delay' = retry_delay
             /\ buffer' = buffer /\ messages' = <<>> /\ history' = history
       /\ (pc = "backoff" /\ cause \in {"status", "connect"} /\ ~signalled') =>
             /\ pc' = "connecting"
             /\ retry_delay' = (IF 2 * retry_delay > 60 THEN 60 ELSE 2 * retry_delay)
             /\ waits' = waits + 1
             /\ buffer' = buffer /\ history' = history]_vars

\* a non-success status answered the third attempt in a row: the wait is 20
C17_Witness == pc = "backoff" /\ cause = "status" /\ retry_delay = 20 /\ fails = 3

\* C18: retry_delay is always one of 5, 10, 20, 40, 60; it changes only by the
\* reset to 5 on a successful connection and by the capped doubling after a
\* wait, and never while a session decodes frames, handles payloads or writes.
C18_DelayInvariant ==
    /\ [](retry_delay \in {5, 10, 20, 40, 60})
    /\ [][retry_delay' # retry_delay =>
             \/ pc = "connecting" /\ pc' = "streaming" /\ retry_delay' = 5
             \/ pc = "backoff" /\ pc' = "connecting"
                   /\ retry_delay' = (IF retry_delay = 40 THEN 60 ELSE 2 * retry_delay)]_vars
    /\ [][(pc \in Streaming) => retry_delay' = retry_delay]_vars

\* after a session that handled a frame (the delay was reset to 5), four waits
\* have brought the delay to 60
C18_Witness == pc = "connecting" /\ nframes = 1 /\ waits = 4 /\ retry_delay = 60

\* C19: after each chunk the buffer holds no two consecutive newlines: it is
\* the end of what has been fed, and either all of it or what follows a
\* blank-line delimiter.
C19_BufferHasNoDelimiter ==
    LET fed == SubSeq(wire, 1, Len(wire) - Len(rest))
        k == Len(fed) - Len(dbuf)
    IN  /\ \A i \in 1..(Len(dbuf) - 1) : ~(dbuf[i] = NL /\ dbuf[i + 1] = NL)
        /\ k >= 0
        /\ dbuf = SubSeq(fed, k + 1, Len(fed))
        /\ k = 0 \/ (k >= 2 /\ fed[k - 1] = NL /\ fed[k] = NL)

\* a frame followed by three newlines has been fed: the frame was consumed and
\* the newline after the delimiter is kept
C19_Witness ==
    /\ wire = DataPrefix \o <<"x", NL, NL, NL>>
    /\ rest = <<>>
    /\ dout = <<<<"x">>>>
    /\ dbuf = <<NL>>

====
